---- MODULE Spec2Model ----
(***************************************************************************)
(* Model of the air-pollution repository: the column classifier            *)
(* (process_data.py), the fetcher (raw_data.py), the reference resolver    *)
(* (process_data.get_reference_columns) and the summary builder            *)
(* (inspect_site.monitoring_site_summary).                                 *)
(*                                                                         *)
(* Strings are TLA+ strings: TLC evaluates \o, Len and SubSeq on them, so  *)
(* `marker in title` and `title + " " + marker` are computed on the actual *)
(* characters.                                                             *)
(***************************************************************************)
EXTENDS Integers, Sequences, FiniteSets, TLC

VARIABLES
    cl,                 \* classifier harness: one call of split_column_types / rename_status_and_unit_columns
    gy,                 \* fetcher harness: one call of get_single_year
    fl,                 \* summary-row harness: calls of the fill functions on one table
    pv,                 \* a run of preview_data
    pc,                 \* position of monitoring_site_summary
    caller_years,       \* the years_of_interest argument as the caller wrote it
    years_of_interest,  \* the list object shared by monitoring_site_summary and get_reference_columns
    remote,             \* what the remote site holds for each year
    ref_idx,            \* loop position of get_reference_columns
    reference_cols,     \* return value of get_reference_columns
    raised,             \* the exception that ended the run, "none" while there is none
    idx,                \* loop position of monitoring_site_summary
    measurement_summary,
    status_summary,
    unit_summary,
    unique_status_counts,
    unique_unit_counts,
    config,             \* the fetch configuration the caller passed to monitoring_site_summary
    data_dict,          \* year -> renamed table
    year_state,         \* per row index: what the summary loop did with that year
    io_log              \* the fetches and sleeps of the run, in order

vars == <<cl, gy, fl, pv, pc, caller_years, years_of_interest, remote, ref_idx, reference_cols,
          raised, idx, measurement_summary, status_summary, unit_summary,
          unique_status_counts, unique_unit_counts, config, data_dict, year_state, io_log>>

runVars == <<pc, caller_years, years_of_interest, remote, ref_idx, reference_cols,
             raised, idx, measurement_summary, status_summary, unit_summary,
             unique_status_counts, unique_unit_counts, config, data_dict, year_state, io_log>>

-----------------------------------------------------------------------------
(* Bounds of the model *)

MaxCols == 3        \* longest column list handed to the classifier harness
MaxYears == 3       \* longest years_of_interest list of a run

-----------------------------------------------------------------------------
(* Python primitives *)

\* `m in t` for two strings: m occurs in t as a contiguous substring.
StrContains(m, t) ==
    \E k \in 0..(Len(t) - Len(m)) : SubSeq(t, k + 1, k + Len(m)) = m

\* A list built by a comprehension, as a tuple.
PyList(f) == f \o <<>>

\* `x in lst` for a list.
InList(x, lst) == \E k \in 1..Len(lst) : lst[k] = x

\* lst[j] for a Python list and a 0-based, possibly negative, index j:
\* -len <= j < 0 counts from the end, anything outside -len..len-1 raises IndexError.
PyIndexInRange(lst, j) == j >= 0 - Len(lst) /\ j < Len(lst)

PyIndex(lst, j) == IF j >= 0 THEN lst[j + 1] ELSE lst[Len(lst) + j + 1]

-----------------------------------------------------------------------------
(* Column classifier: process_data.py *)

\* The three lists of split_column_types.
SplitStatusCols(reference_cols_, status_str, unit_str) ==
    SelectSeq(reference_cols_, LAMBDA col : StrContains(status_str, col))

SplitUnitCols(reference_cols_, status_str, unit_str) ==
    SelectSeq(reference_cols_, LAMBDA col : StrContains(unit_str, col))

SplitMeasurementCols(reference_cols_, status_str, unit_str) ==
    LET status_cols == SplitStatusCols(reference_cols_, status_str, unit_str)
        unit_cols == SplitUnitCols(reference_cols_, status_str, unit_str)
    IN  SelectSeq(reference_cols_,
                  LAMBDA col : ~InList(col, status_cols) /\ ~InList(col, unit_cols))

split_column_types(reference_cols_, status_str, unit_str) ==
    [measurement_cols |-> SplitMeasurementCols(reference_cols_, status_str, unit_str),
     status_cols      |-> SplitStatusCols(reference_cols_, status_str, unit_str),
     unit_cols        |-> SplitUnitCols(reference_cols_, status_str, unit_str)]

\* generate_metadata_column_title: [err, title]; err = "IndexError" when the
\* list lookup raises.
TitleOk(t) == [err |-> "none", title |-> t]
TitleIndexError == [err |-> "IndexError", title |-> ""]

LookupTitle(col_list, j, marker) ==
    IF PyIndexInRange(col_list, j)
    THEN TitleOk(PyIndex(col_list, j) \o " " \o marker)
    ELSE TitleIndexError

\* generate_metadata_column_title with the two offsets exchanged.
SwappedOffsetsColumnTitle(col_list, input_col_idx, input_col_title, status_str, unit_str, status_offset, unit_offset) ==
    IF StrContains(status_str, input_col_title)
    THEN LookupTitle(col_list, input_col_idx + unit_offset, status_str)
    ELSE IF StrContains(unit_str, input_col_title)
         THEN LookupTitle(col_list, input_col_idx + status_offset, unit_str)
         ELSE TitleOk(input_col_title)

generate_metadata_column_title(col_list, input_col_idx, input_col_title, status_str, unit_str, status_offset, unit_offset) ==
    IF StrContains(status_str, input_col_title)
    THEN LookupTitle(col_list, input_col_idx + status_offset, status_str)
    ELSE IF StrContains(unit_str, input_col_title)
         THEN LookupTitle(col_list, input_col_idx + unit_offset, unit_str)
         ELSE TitleOk(input_col_title)

\* OutputColList built back to front.
ReversedOutputColList(input_col_list, status_str, unit_str, status_offset, unit_offset) ==
    PyList([k \in 1..Len(input_col_list) |->
        LET r == Len(input_col_list) + 1 - k
        IN  generate_metadata_column_title(input_col_list, r - 1, input_col_list[r],
                                           status_str, unit_str, status_offset, unit_offset)])

\* The list comprehension of rename_status_and_unit_columns: element k
\* (1-based here, index k-1 in Python) is computed from the input list.
OutputColList(input_col_list, status_str, unit_str, status_offset, unit_offset) ==
    PyList([k \in 1..Len(input_col_list) |->
        generate_metadata_column_title(input_col_list, k - 1, input_col_list[k],
                                       status_str, unit_str, status_offset, unit_offset)])

\* A table is [cols, data]: the column titles and, aligned with them, the
\* columns' contents.  rename_status_and_unit_columns returns [err, df].
NoTable == [cols |-> <<>>, data |-> <<>>]

rename_status_and_unit_columns(input_df, status_str, unit_str, status_offset, unit_offset) ==
    LET out == OutputColList(input_df.cols, status_str, unit_str, status_offset, unit_offset)
    IN  IF \E k \in 1..Len(out) : out[k].err = "IndexError"
        THEN [err |-> "IndexError", df |-> NoTable]
        ELSE [err |-> "none",
              df  |-> [cols |-> PyList([k \in 1..Len(out) |-> out[k].title]),
                       data |-> input_df.data]]

-----------------------------------------------------------------------------
(* Classifier harness: one call of split_column_types or of                *)
(* rename_status_and_unit_columns on arguments drawn from small sets.      *)

ClassifierTitles == {"NO2", "status", "unit", "status.1", "unit status", "PM10 unit"}
MarkerChoices == {"status", "unit", "us"}
OffsetChoices == {-3, -2, -1, 1}

ColumnLists == UNION {[1..n -> ClassifierTitles] : n \in 0..MaxCols}

\* The harness table: column k holds the content tag k.
HarnessTable(cols) == [cols |-> cols, data |-> [k \in 1..Len(cols) |-> k]]

NoSplit == [measurement_cols |-> <<>>, status_cols |-> <<>>, unit_cols |-> <<>>]
NoRename == [err |-> "none", df |-> NoTable]

ClIdle == [op |-> "idle", cols |-> <<>>, status_str |-> "status", unit_str |-> "unit",
           status_offset |-> -1, unit_offset |-> -2, split |-> NoSplit, renamed |-> NoRename]

ClInit ==
    \E cols \in ColumnLists, ss \in MarkerChoices, us \in MarkerChoices,
       so \in OffsetChoices, uo \in OffsetChoices :
        cl = [op |-> "args", cols |-> cols, status_str |-> ss, unit_str |-> us,
              status_offset |-> so, unit_offset |-> uo,
              split |-> NoSplit, renamed |-> NoRename]

CallSplitColumnTypes ==
    /\ cl.op = "args"
    /\ cl' = [cl EXCEPT !.op = "split",
                        !.split = split_column_types(cl.cols, cl.status_str, cl.unit_str)]
    /\ UNCHANGED <<gy, fl, pv, runVars>>

CallRenameStatusAndUnitColumns ==
    /\ cl.op = "args"
    /\ cl' = [cl EXCEPT !.op = "rename",
                        !.renamed = rename_status_and_unit_columns(
                                        HarnessTable(cl.cols), cl.status_str, cl.unit_str,
                                        cl.status_offset, cl.unit_offset)]
    /\ UNCHANGED <<gy, fl, pv, runVars>>

-----------------------------------------------------------------------------
(* Fetcher: raw_data.get_single_year *)

\* Cells of a table, tagged with their Python type; v is the printed form.
CStr(s) == [t |-> "str", v |-> s]
CNaN == [t |-> "nan", v |-> "nan"]
CBool(b) == [t |-> "bool", v |-> IF b THEN "True" ELSE "False"]
CInt(n) == [t |-> "int", v |-> ToString(n)]
CFloat(n) == [t |-> "float", v |-> ToString(n) \o ".0"]

\* What pd.read_csv can do with a URL: parse it, or raise one of these.
ReadOutcomes == {"ok", "network", "parse", "notfound"}

NoLimit == -1       \* nrows=None

\* The first nrows rows of every column (all of them when nrows is None).
HeadRows(column, nrows) ==
    IF nrows = NoLimit \/ nrows >= Len(column) THEN column ELSE SubSeq(column, 1, nrows)

ReadCsv(table, nrows) ==
    [cols |-> table.cols,
     data |-> PyList([k \in 1..Len(table.data) |-> HeadRows(table.data[k], nrows)])]

\* data_url = f"{fixed_url}{site_id}{sep}{year}.{file_format}"
DataUrl(site_id, year, fixed_url, sep, file_format) ==
    fixed_url \o site_id \o sep \o ToString(year) \o "." \o file_format

WarningLines(data_url) ==
    << "-------", "WARNING", "-------",
       "Could not read data from: " \o data_url,
       "Check the URL to ensure location code, year and file extension are all valid!" >>

\* An except clause that names only the HTTP errors.
HttpOnlyReadIsCaught(outcome) == outcome \in {"network", "notfound"}

\* `except:` with no exception class: every exception raised by the read is caught.
ReadIsCaught(outcome) == outcome # "ok"

\* get_single_year: [raised, is_none, single_year, printed].  `outcome` and
\* `table` are what the read of data_url does.
get_single_year(site_id, year, nrows, fixed_url, sep, file_format, outcome, table) ==
    LET data_url == DataUrl(site_id, year, fixed_url, sep, file_format)
    IN  IF outcome = "ok"
        THEN [raised |-> "none", is_none |-> FALSE,
              single_year |-> ReadCsv(table, nrows), printed |-> <<>>]
        ELSE IF ReadIsCaught(outcome)
             THEN [raised |-> "none", is_none |-> TRUE,
                   single_year |-> NoTable, printed |-> WarningLines(data_url)]
             ELSE [raised |-> outcome, is_none |-> TRUE,
                   single_year |-> NoTable, printed |-> <<>>]

-----------------------------------------------------------------------------
(* The remote site: the yearly tables a read can yield *)

Years == {2019, 2020, 2021}

V == CStr("V")
P == CStr("P")
Ugm3 == CStr("ugm-3")
Mgm3 == CStr("mgm-3")

TableNO2 ==
    [cols |-> <<"NO2", "status", "unit">>,
     data |-> << <<CFloat(12), CFloat(15)>>, <<V, V>>, <<CNaN, CNaN>> >>]

TableNO2O3 ==
    [cols |-> <<"NO2", "status", "unit", "O3", "status.1", "unit.1">>,
     data |-> << <<CFloat(12), CNaN, CFloat(9)>>, <<V, P, CNaN>>, <<Ugm3, Ugm3, Ugm3>>,
                 <<CFloat(40), CFloat(41), CFloat(41)>>, <<CNaN, V, CNaN>>,
                 <<Ugm3, Mgm3, Ugm3>> >>]

TableUnitOnly ==
    [cols |-> <<"unit">>, data |-> << <<Ugm3, Ugm3>> >>]

RemoteTables == {TableNO2, TableNO2O3, TableUnitOnly}

-----------------------------------------------------------------------------
(* Fetcher harness: one call of get_single_year *)

SiteIds == {"OX8", "MY1"}
FixedUrls == {"https://uk-air.defra.gov.uk/data_files/site_data/", "http://localhost/"}
Seps == {"_", "-"}
FileFormats == {"csv", "txt"}

NoFetch == [raised |-> "none", is_none |-> TRUE, single_year |-> NoTable, printed |-> <<>>]

GyIdle == [op |-> "idle", site_id |-> "OX8", year |-> 2019,
           fixed_url |-> "https://uk-air.defra.gov.uk/data_files/site_data/",
           sep |-> "_", file_format |-> "csv", nrows |-> NoLimit, table |-> NoTable,
           outcome |-> "ok", result |-> NoFetch]

GyInit ==
    \E s \in SiteIds, y \in Years, u \in FixedUrls, sp \in Seps, ff \in FileFormats :
        gy = [op |-> "args", site_id |-> s, year |-> y, fixed_url |-> u, sep |-> sp,
              file_format |-> ff, nrows |-> NoLimit, table |-> NoTable,
              outcome |-> "ok", result |-> NoFetch]

CallGetSingleYear ==
    /\ gy.op = "args"
    /\ \E outcome \in ReadOutcomes, table \in RemoteTables, nrows \in {NoLimit, 1} :
        gy' = [gy EXCEPT !.op = "called", !.outcome = outcome, !.nrows = nrows,
                         !.table = table,
                         !.result = get_single_year(gy.site_id, gy.year, nrows, gy.fixed_url,
                                                    gy.sep, gy.file_format, outcome, table)]
    /\ UNCHANGED <<cl, fl, pv, runVars>>

-----------------------------------------------------------------------------
(* Summary tables: inspect_site.py *)

\* A summary table is [cols, rows]: the column titles and, per row index,
\* the cells aligned with cols.  Row index i of pandas is rows[i + 1].

NoSummary == [cols |-> <<>>, rows |-> <<>>]

year_col_title == "Data Set (Year)"
invalid_year_str == "no data"

\* The keys of a dict built by inserting `keys` in order: first occurrences.
RECURSIVE DictKeysFrom(_, _)
DictKeysFrom(keys, acc) ==
    IF keys = <<>> THEN acc
    ELSE DictKeysFrom(Tail(keys),
                      IF InList(Head(keys), acc) THEN acc ELSE Append(acc, Head(keys)))

DictKeys(keys) == DictKeysFrom(keys, <<>>)

\* summary_dict = {year_col_title: "blank"}; update with {col: False}; one
\* row per year of interest, every row holding the dict's scalars.
create_empty_summary(summary_cols, years, year_col) ==
    LET cols == DictKeys(<<year_col>> \o summary_cols)
        blank(c) == IF c = year_col /\ ~InList(c, summary_cols)
                    THEN CStr("blank") ELSE CBool(FALSE)
    IN  [cols |-> cols,
         rows |-> PyList([i \in 1..Len(years) |->
                             PyList([k \in 1..Len(cols) |-> blank(cols[k])])])]

\* df.loc[row_idx, col] = value: writes the cell, enlarging the table by a
\* column of NaN when col is not yet a column.
SetCell(df, row_idx, col, value) ==
    IF InList(col, df.cols)
    THEN [df EXCEPT !.rows[row_idx + 1] =
              PyList([k \in 1..Len(df.cols) |-> IF df.cols[k] = col THEN value ELSE @[k]])]
    ELSE [cols |-> Append(df.cols, col),
          rows |-> PyList([i \in 1..Len(df.rows) |->
                       Append(df.rows[i], IF i = row_idx + 1 THEN value ELSE CNaN)])]

\* df.loc[row_idx, :] = value
SetRow(df, row_idx, value) ==
    [df EXCEPT !.rows[row_idx + 1] = PyList([k \in 1..Len(df.cols) |-> value])]

mark_invalid_year(input_summary, invalid_year, row_idx, year_col, count_only) ==
    SetCell(SetRow(input_summary, row_idx,
                   IF count_only THEN CFloat(0) ELSE CStr(invalid_year_str)),
            row_idx, year_col, CInt(invalid_year))

RECURSIVE MarkPresent(_, _, _)
MarkPresent(summary, row_idx, measurement_cols) ==
    IF measurement_cols = <<>> THEN summary
    ELSE MarkPresent(SetCell(summary, row_idx, Head(measurement_cols), CBool(TRUE)),
                     row_idx, Tail(measurement_cols))

\* fill_measurement_summary_row that marks the columns of the table instead
\* of the columns of the year.
FillEveryMeasurementColumn(input_summary, year, row_idx, measurement_cols, year_col) ==
    MarkPresent(SetCell(input_summary, row_idx, year_col, CInt(year)), row_idx,
                SelectSeq(input_summary.cols, LAMBDA c : c # year_col))

fill_measurement_summary_row(input_summary, year, row_idx, measurement_cols, year_col) ==
    MarkPresent(SetCell(input_summary, row_idx, year_col, CInt(year)),
                row_idx, measurement_cols)

\* single_year_data[col]: the contents of the column titled col.
ColumnOf(single_year_data, col) ==
    single_year_data.data[CHOOSE k \in 1..Len(single_year_data.cols) :
                              single_year_data.cols[k] = col]

\* nunique(dropna=True) that counts the missing value as a value.
NUniqueCountingNaN(column) == Cardinality({column[r] : r \in 1..Len(column)})

\* Series.nunique(dropna=True) and Series.nunique(dropna=False)
NUnique(column) == Cardinality({column[r] : r \in 1..Len(column)} \ {CNaN})
NUniqueWithNaN(column) == Cardinality({column[r] : r \in 1..Len(column)})

\* The value at Series.first_valid_index()
FirstValid(column) ==
    column[CHOOSE r \in 1..Len(column) :
               column[r] # CNaN /\ \A q \in 1..(r - 1) : column[q] = CNaN]

\* MetadataCell that reads row 0 where the code reads the first valid row.
MetadataCellFromRowZero(column, count_only) ==
    LET unique_count == NUnique(column)
        unique_count_with_nan == NUniqueWithNaN(column)
    IN  IF count_only THEN CFloat(unique_count)
        ELSE IF unique_count = 1 /\ unique_count_with_nan \in {1, 2}
             THEN IF unique_count_with_nan = 2
                  THEN CStr(column[1].v \o "  (+ NaNs)") ELSE column[1]
             ELSE CStr(ToString(unique_count) \o " different values")

\* The cell one column gets in a status or unit summary row.
MetadataCell(column, count_only) ==
    LET unique_count == NUnique(column)
        unique_count_with_nan == NUniqueWithNaN(column)
    IN  IF count_only THEN CFloat(unique_count)
        ELSE IF unique_count = 1 /\ unique_count_with_nan = 2
             THEN CStr(FirstValid(column).v \o "  (+ NaNs)")
             ELSE IF unique_count = 1 /\ unique_count_with_nan = 1
                  THEN column[1]
                  ELSE CStr(ToString(unique_count) \o " different values")

RECURSIVE FillMetadataCells(_, _, _, _, _)
FillMetadataCells(summary, row_idx, single_year_data, meta_cols, count_only) ==
    IF meta_cols = <<>> THEN summary
    ELSE FillMetadataCells(
             SetCell(summary, row_idx, Head(meta_cols),
                     MetadataCell(ColumnOf(single_year_data, Head(meta_cols)), count_only)),
             row_idx, single_year_data, Tail(meta_cols), count_only)

fill_status_summary_row(input_summary, year, row_idx, single_year_data, status_cols, year_col, count_only) ==
    FillMetadataCells(SetCell(input_summary, row_idx, year_col, CInt(year)),
                      row_idx, single_year_data, status_cols, count_only)

fill_unit_summary_row(input_summary, year, row_idx, single_year_data, unit_cols, year_col, count_only) ==
    FillMetadataCells(SetCell(input_summary, row_idx, year_col, CInt(year)),
                      row_idx, single_year_data, unit_cols, count_only)

\* DataFrame.fillna(value): every NaN cell becomes value.
FillNa(df, value) ==
    [cols |-> df.cols,
     rows |-> PyList([i \in 1..Len(df.rows) |->
                  PyList([k \in 1..Len(df.cols) |->
                      IF df.rows[i][k] = CNaN THEN value ELSE df.rows[i][k]])])]

\* DataFrame.replace(to_replace, value): every cell equal to to_replace becomes value.
Replace(df, to_replace, value) ==
    [cols |-> df.cols,
     rows |-> PyList([i \in 1..Len(df.rows) |->
                  PyList([k \in 1..Len(df.cols) |->
                      IF df.rows[i][k] = to_replace THEN value ELSE df.rows[i][k]])])]

\* The fill step without the fillna calls.
FinalizeCountsWithoutFillNa(counts) == Replace(counts, CBool(FALSE), CFloat(0))

\* The fill step of monitoring_site_summary.
FinalizeMeasurementSummary(summary) == FillNa(summary, CBool(FALSE))

FinalizeCounts(counts) == FillNa(Replace(counts, CBool(FALSE), CFloat(0)), CFloat(0))

-----------------------------------------------------------------------------
(* Summary-row harness: fill_status_summary_row and fill_unit_summary_row  *)
(* called with the same arguments on one year's table.                     *)

MaxRows == 3        \* most rows of the harness table

StatusCells == {V, P, CNaN}
UnitCells == {CFloat(5), CFloat(6), CNaN}

FillMetaCols == <<"NO2 status", "NO2 unit">>
FillYears == <<2020, 2021>>

\* The summary the calls start from: the year column and one of the two
\* metadata columns, so that the other one is added by the call.
FillInputSummary == create_empty_summary(<<"NO2 status">>, FillYears, year_col_title)

FlIdle == [op |-> "idle", single_year_data |-> NoTable, row_idx |-> 0, count_only |-> FALSE,
           status_called |-> FALSE, unit_called |-> FALSE,
           by_status |-> NoSummary, by_unit |-> NoSummary]

FlInit ==
    \E n \in 0..MaxRows :
        \E status_col \in [1..n -> StatusCells], unit_col \in [1..n -> UnitCells],
           r \in 0..(Len(FillYears) - 1), c \in BOOLEAN :
            fl = [op |-> "args",
                  single_year_data |-> [cols |-> FillMetaCols,
                                        data |-> <<PyList(status_col), PyList(unit_col)>>],
                  row_idx |-> r, count_only |-> c,
                  status_called |-> FALSE, unit_called |-> FALSE,
                  by_status |-> NoSummary, by_unit |-> NoSummary]

CallFillStatusSummaryRow ==
    /\ fl.op = "args"
    /\ ~fl.status_called
    /\ fl' = [fl EXCEPT !.status_called = TRUE,
                        !.by_status = fill_status_summary_row(FillInputSummary,
                                          FillYears[fl.row_idx + 1], fl.row_idx,
                                          fl.single_year_data, FillMetaCols, year_col_title,
                                          fl.count_only)]
    /\ UNCHANGED <<cl, gy, pv, runVars>>

CallFillUnitSummaryRow ==
    /\ fl.op = "args"
    /\ ~fl.unit_called
    /\ fl' = [fl EXCEPT !.unit_called = TRUE,
                        !.by_unit = fill_unit_summary_row(FillInputSummary,
                                        FillYears[fl.row_idx + 1], fl.row_idx,
                                        fl.single_year_data, FillMetaCols, year_col_title,
                                        fl.count_only)]
    /\ UNCHANGED <<cl, gy, pv, runVars>>

-----------------------------------------------------------------------------
(* Reference resolver and summary builder:                                 *)
(* process_data.get_reference_columns, inspect_site.monitoring_site_summary *)

\* Keyword defaults shared by the two functions.
DefaultFixedUrl == "https://uk-air.defra.gov.uk/data_files/site_data/"
DefaultSep == "_"
DefaultFileFormat == "csv"
DefaultStatusStr == "status"
DefaultUnitStr == "unit"
DefaultStatusOffset == -1
DefaultUnitOffset == -2
ReferenceNRows == 1

DefaultConfig == [fixed_url |-> DefaultFixedUrl, sep |-> DefaultSep,
                  file_format |-> DefaultFileFormat]
MirrorConfig == [fixed_url |-> "http://localhost/", sep |-> "-", file_format |-> "txt"]
RunConfigs == {DefaultConfig, MirrorConfig}
RunSiteId == "OX8"

\* list.sort(reverse=True)
RECURSIVE SortedDescending(_)
SortedDescending(lst) ==
    IF lst = <<>> THEN <<>>
    ELSE LET m == CHOOSE k \in 1..Len(lst) :
                      \A j \in 1..Len(lst) : lst[j] <= lst[k]
         IN  <<lst[m]>> \o SortedDescending(SubSeq(lst, 1, m - 1) \o SubSeq(lst, m + 1, Len(lst)))

\* get_reference_columns without its sort.
YearsInCallerOrder(lst) == lst

\* years_of_interest.sort(reverse=True), in place on the caller's list.
ResolverYearOrder(lst) == SortedDescending(lst)

FetchEvent(by, url, year, nrows, got) ==
    [ev |-> "fetch", by |-> by, url |-> url, year |-> year, nrows |-> nrows, got |-> got]
SleepEvent(by) ==
    [ev |-> "sleep", by |-> by, url |-> "", year |-> 0, nrows |-> 0, got |-> FALSE]

YearLists == UNION {[1..n -> Years] : n \in 0..MaxYears}

\* The state at the call of monitoring_site_summary, for a caller whose fetch
\* configuration is one of `configs` and a site whose yearly files are among
\* `tables`.  Years the caller does not list are never read.
RunInitWith(configs, tables) ==
    /\ pc = "start"
    /\ caller_years \in YearLists
    /\ years_of_interest = caller_years
    /\ remote \in [Years -> tables]
    /\ \A y \in Years : ~InList(y, caller_years) => remote[y] = TableNO2
    /\ config \in configs
    /\ ref_idx = 0
    /\ reference_cols = <<>>
    /\ raised = "none"
    /\ idx = 0
    /\ measurement_summary = NoSummary
    /\ status_summary = NoSummary
    /\ unit_summary = NoSummary
    /\ unique_status_counts = NoSummary
    /\ unique_unit_counts = NoSummary
    /\ data_dict = <<>>
    /\ year_state = [k \in 1..Len(caller_years) |-> "unprocessed"]
    /\ io_log = <<>>

RunIdle ==
    /\ pc = "idle"
    /\ caller_years = <<>>
    /\ years_of_interest = <<>>
    /\ remote = <<>>
    /\ config = DefaultConfig
    /\ ref_idx = 0
    /\ reference_cols = <<>>
    /\ raised = "none"
    /\ idx = 0
    /\ measurement_summary = NoSummary
    /\ status_summary = NoSummary
    /\ unit_summary = NoSummary
    /\ unique_status_counts = NoSummary
    /\ unique_unit_counts = NoSummary
    /\ data_dict = <<>>
    /\ year_state = <<>>
    /\ io_log = <<>>

summaryVars == <<measurement_summary, status_summary, unit_summary,
                 unique_status_counts, unique_unit_counts, data_dict, year_state>>

\* monitoring_site_summary calls get_reference_columns, which first sorts the
\* list it was handed.
CallGetReferenceColumns ==
    /\ pc = "start"
    /\ years_of_interest' = ResolverYearOrder(years_of_interest)
    /\ ref_idx' = 0
    /\ pc' = "resolve"
    /\ UNCHANGED <<cl, gy, fl, pv, caller_years, remote, config, reference_cols, raised, idx,
                   summaryVars, io_log>>

\* One pass of the for loop of get_reference_columns.  monitoring_site_summary
\* passes no fetch configuration, so the keyword defaults apply.
ResolverIteration ==
    /\ pc = "resolve"
    /\ ref_idx < Len(years_of_interest)
    /\ \E outcome \in ReadOutcomes :
        LET indv_year == years_of_interest[ref_idx + 1]
            url == DataUrl(RunSiteId, indv_year, DefaultFixedUrl, DefaultSep, DefaultFileFormat)
            got == get_single_year(RunSiteId, indv_year, ReferenceNRows, DefaultFixedUrl,
                                   DefaultSep, DefaultFileFormat, outcome, remote[indv_year])
            renamed == rename_status_and_unit_columns(got.single_year, DefaultStatusStr,
                           DefaultUnitStr, DefaultStatusOffset, DefaultUnitOffset)
            fetched == FetchEvent("resolver", url, indv_year, ReferenceNRows, ~got.is_none)
        IN  IF got.raised # "none"
            THEN /\ pc' = "raised"
                 /\ raised' = got.raised
                 /\ io_log' = Append(io_log, fetched)
                 /\ UNCHANGED <<ref_idx, reference_cols>>
            ELSE IF ~got.is_none
                 THEN IF renamed.err # "none"
                      THEN /\ pc' = "raised"
                           /\ raised' = renamed.err
                           /\ io_log' = Append(io_log, fetched)
                           /\ UNCHANGED <<ref_idx, reference_cols>>
                      ELSE /\ pc' = "resolved"
                           /\ reference_cols' = renamed.df.cols
                           /\ io_log' = Append(io_log, fetched)
                           /\ UNCHANGED <<ref_idx, raised>>
                 ELSE /\ ref_idx' = ref_idx + 1
                      /\ io_log' = io_log \o <<fetched, SleepEvent("resolver")>>
                      /\ UNCHANGED <<pc, raised, reference_cols>>
    /\ UNCHANGED <<cl, gy, fl, pv, caller_years, years_of_interest, remote, config, idx, summaryVars>>

\* The raise after the loop.  The message is formatted first, and it reads
\* years_of_interest[-1] and years_of_interest[0].
ResolverExhausted ==
    /\ pc = "resolve"
    /\ ref_idx = Len(years_of_interest)
    /\ pc' = "raised"
    /\ raised' = IF PyIndexInRange(years_of_interest, -1) /\ PyIndexInRange(years_of_interest, 0)
                 THEN "ValueError" ELSE "IndexError"
    /\ UNCHANGED <<cl, gy, fl, pv, caller_years, years_of_interest, remote, config, ref_idx,
                   reference_cols, idx, summaryVars, io_log>>

\* split_column_types on the reference columns and the five empty tables.
CreateSummaries ==
    /\ pc = "resolved"
    /\ LET split == split_column_types(reference_cols, DefaultStatusStr, DefaultUnitStr)
       IN  /\ measurement_summary' =
                  create_empty_summary(split.measurement_cols, years_of_interest, year_col_title)
           /\ status_summary' =
                  create_empty_summary(split.status_cols, years_of_interest, year_col_title)
           /\ unit_summary' =
                  create_empty_summary(split.unit_cols, years_of_interest, year_col_title)
           /\ unique_status_counts' =
                  create_empty_summary(split.status_cols, years_of_interest, year_col_title)
           /\ unique_unit_counts' =
                  create_empty_summary(split.unit_cols, years_of_interest, year_col_title)
    /\ data_dict' = <<>>
    /\ idx' = 0
    /\ pc' = "loop"
    /\ UNCHANGED <<cl, gy, fl, pv, caller_years, years_of_interest, remote, config, ref_idx,
                   reference_cols, raised, year_state, io_log>>

\* A loop that fetches an absent year again.
RetryAbsentYear(idx_, is_none, n) == IF is_none THEN idx_ ELSE idx_ + 1

\* A loop that an absent year ends.
StopAtAbsentYear(idx_, is_none, n) == IF is_none THEN n ELSE idx_ + 1

\* for idx, indv_year in enumerate(years_of_interest): after a pass over one
\* of the n years the loop is at the next index, whatever the fetch gave.
NextLoopIndex(idx_, is_none, n) == idx_ + 1

\* data_dict[indv_year] = single_year, also for a year without a table.
RecordEveryYear(dict, indv_year, is_none, single_year) == (indv_year :> single_year) @@ dict

\* data_dict after a pass: data_dict[indv_year] = single_year in the else
\* branch only.
RecordYear(dict, indv_year, is_none, single_year) ==
    IF is_none THEN dict ELSE (indv_year :> single_year) @@ dict

\* One pass of the for loop of monitoring_site_summary.
LoopIteration ==
    /\ pc = "loop"
    /\ idx < Len(years_of_interest)
    /\ \E outcome \in ReadOutcomes :
        LET indv_year == years_of_interest[idx + 1]
            url == DataUrl(RunSiteId, indv_year, config.fixed_url, config.sep, config.file_format)
            got == get_single_year(RunSiteId, indv_year, NoLimit, config.fixed_url,
                                   config.sep, config.file_format, outcome, remote[indv_year])
            renamed == rename_status_and_unit_columns(got.single_year, DefaultStatusStr,
                           DefaultUnitStr, DefaultStatusOffset, DefaultUnitOffset)
            single_year == renamed.df
            sy == split_column_types(single_year.cols, DefaultStatusStr, DefaultUnitStr)
            fetched == FetchEvent("loop", url, indv_year, NoLimit, ~got.is_none)
        IN  IF got.raised # "none"
            THEN /\ pc' = "raised"
                 /\ raised' = got.raised
                 /\ io_log' = Append(io_log, fetched)
                 /\ UNCHANGED <<idx, summaryVars>>
            ELSE IF got.is_none
                 THEN /\ measurement_summary' =
                          mark_invalid_year(measurement_summary, indv_year, idx, year_col_title, FALSE)
                      /\ status_summary' =
                          mark_invalid_year(status_summary, indv_year, idx, year_col_title, FALSE)
                      /\ unit_summary' =
                          mark_invalid_year(unit_summary, indv_year, idx, year_col_title, FALSE)
                      /\ unique_status_counts' =
                          mark_invalid_year(unique_status_counts, indv_year, idx, year_col_title, TRUE)
                      /\ unique_unit_counts' =
                          mark_invalid_year(unique_unit_counts, indv_year, idx, year_col_title, TRUE)
                      /\ year_state' = [year_state EXCEPT ![idx + 1] = "absent-marked"]
                      /\ data_dict' = RecordYear(data_dict, indv_year, got.is_none, single_year)
                      /\ io_log' = io_log \o <<fetched, SleepEvent("loop")>>
                      /\ idx' = NextLoopIndex(idx, got.is_none, Len(years_of_interest))
                      /\ UNCHANGED <<pc, raised>>
                 ELSE IF renamed.err # "none"
                      THEN /\ pc' = "raised"
                           /\ raised' = renamed.err
                           /\ io_log' = Append(io_log, fetched)
                           /\ UNCHANGED <<idx, summaryVars>>
                      ELSE /\ measurement_summary' =
                                fill_measurement_summary_row(measurement_summary, indv_year, idx,
                                    sy.measurement_cols, year_col_title)
                           /\ status_summary' =
                                fill_status_summary_row(status_summary, indv_year, idx,
                                    single_year, sy.status_cols, year_col_title, FALSE)
                           /\ unit_summary' =
                                fill_unit_summary_row(unit_summary, indv_year, idx,
                                    single_year, sy.unit_cols, year_col_title, FALSE)
                           /\ unique_status_counts' =
                                fill_status_summary_row(unique_status_counts, indv_year, idx,
                                    single_year, sy.status_cols, year_col_title, TRUE)
                           /\ unique_unit_counts' =
                                fill_unit_summary_row(unique_unit_counts, indv_year, idx,
                                    single_year, sy.unit_cols, year_col_title, TRUE)
                           /\ data_dict' = RecordYear(data_dict, indv_year, got.is_none, single_year)
                           /\ year_state' = [year_state EXCEPT ![idx + 1] = "classified-and-recorded"]
                           /\ io_log' = io_log \o <<fetched, SleepEvent("loop")>>
                           /\ idx' = NextLoopIndex(idx, got.is_none, Len(years_of_interest))
                           /\ UNCHANGED <<pc, raised>>
    /\ UNCHANGED <<cl, gy, fl, pv, caller_years, years_of_interest, remote, config, ref_idx,
                   reference_cols>>

\* The fill step after the loop, and the return.
FinishSummary ==
    /\ pc = "loop"
    /\ idx = Len(years_of_interest)
    /\ measurement_summary' = FinalizeMeasurementSummary(measurement_summary)
    /\ unique_status_counts' = FinalizeCounts(unique_status_counts)
    /\ unique_unit_counts' = FinalizeCounts(unique_unit_counts)
    /\ pc' = "done"
    /\ UNCHANGED <<cl, gy, fl, pv, caller_years, years_of_interest, remote, config, ref_idx,
                   reference_cols, raised, idx, status_summary, unit_summary, data_dict,
                   year_state, io_log>>

-----------------------------------------------------------------------------
(* preview_data: inspect_site.py (raw_data.py holds the same function) *)

PreviewNRows == 8   \* nrows=8

\* The yearly files the preview reads.
PreviewRemote == (2019 :> TableNO2) @@ (2020 :> TableNO2O3) @@ (2021 :> TableUnitOnly)

\* list(reversed(np.arange(start_year, end_year + 1)))
ReversedRange(start_year, end_year) ==
    IF end_year < start_year THEN <<>>
    ELSE PyList([k \in 1..(end_year - start_year + 1) |-> end_year - k + 1])

\* list.remove(x) that drops the last element instead.
ListRemoveLast(lst, x) == SubSeq(lst, 1, Len(lst) - 1)

\* list.remove(x): the list without the first occurrence of x.
ListRemove(lst, x) ==
    LET k == CHOOSE j \in 1..Len(lst) : lst[j] = x /\ \A q \in 1..(j - 1) : lst[q] # x
    IN  SubSeq(lst, 1, k - 1) \o SubSeq(lst, k + 1, Len(lst))

PvIdle == [pc |-> "idle", start_year |-> 0, end_year |-> 0, nrows |-> PreviewNRows,
           years_of_interest |-> <<>>, i |-> 0, valid_years |-> <<>>,
           has_preview |-> FALSE, preview_data |-> NoTable, preview_year |-> 0,
           raised |-> "none", log |-> <<>>]

PvInit ==
    \E s \in Years, e \in Years, n \in {1, PreviewNRows} :
        pv = [PvIdle EXCEPT !.pc = "args", !.start_year = s, !.end_year = e, !.nrows = n]

\* The statements before the loop.
CallPreviewData ==
    /\ pv.pc = "args"
    /\ pv' = [pv EXCEPT !.pc = "loop",
                        !.years_of_interest = ReversedRange(pv.start_year, pv.end_year),
                        !.valid_years = ReversedRange(pv.start_year, pv.end_year),
                        !.i = 0]
    /\ UNCHANGED <<cl, gy, fl, runVars>>

\* One pass of the for loop: the fetch, the three-way branch and the sleep.
PreviewIteration ==
    /\ pv.pc = "loop"
    /\ pv.i < Len(pv.years_of_interest)
    /\ \E outcome \in ReadOutcomes :
        LET indv_year == pv.years_of_interest[pv.i + 1]
            got == get_single_year(RunSiteId, indv_year, pv.nrows, DefaultFixedUrl,
                                   DefaultSep, DefaultFileFormat, outcome,
                                   PreviewRemote[indv_year])
            url == DataUrl(RunSiteId, indv_year, DefaultFixedUrl, DefaultSep, DefaultFileFormat)
            events == <<FetchEvent("preview", url, indv_year, pv.nrows, ~got.is_none),
                        SleepEvent("preview")>>
        IN  IF got.raised # "none"
            THEN pv' = [pv EXCEPT !.pc = "raised", !.raised = got.raised,
                                  !.log = Append(@, events[1])]
            ELSE IF got.is_none
                 THEN pv' = [pv EXCEPT !.valid_years = ListRemove(@, indv_year),
                                       !.i = @ + 1, !.log = @ \o events]
                 ELSE IF ~pv.has_preview
                      THEN pv' = [pv EXCEPT !.has_preview = TRUE,
                                            !.preview_data = got.single_year,
                                            !.preview_year = indv_year,
                                            !.i = @ + 1, !.log = @ \o events]
                      ELSE pv' = [pv EXCEPT !.i = @ + 1, !.log = @ \o events]
    /\ UNCHANGED <<cl, gy, fl, runVars>>

\* The assert after the loop, and the return.
PreviewReturn ==
    /\ pv.pc = "loop"
    /\ pv.i = Len(pv.years_of_interest)
    /\ pv' = IF pv.has_preview
             THEN [pv EXCEPT !.pc = "returned"]
             ELSE [pv EXCEPT !.pc = "raised", !.raised = "AssertionError"]
    /\ UNCHANGED <<cl, gy, fl, runVars>>

-----------------------------------------------------------------------------
(* Row-writer harness: one call of mark_invalid_year or of one of the three *)
(* fill functions on a partly filled summary.                               *)

FrameYears == <<2021, 2020, 2019>>

\* The year's table handed to the fill functions, metadata columns renamed.
FrameTables ==
    {rename_status_and_unit_columns(t, DefaultStatusStr, DefaultUnitStr,
                                    DefaultStatusOffset, DefaultUnitOffset).df :
         t \in {TableNO2, TableNO2O3}}

\* Summaries a call can be handed: the empty one, one whose first row marks
\* an absent year, and one whose second row was filled from a year that
\* added columns.
FrameEmptySummary ==
    create_empty_summary(<<"NO2", "NO2 status", "NO2 unit">>, FrameYears, year_col_title)

FrameMarkedSummary ==
    mark_invalid_year(FrameEmptySummary, FrameYears[1], 0, year_col_title, FALSE)

FrameFilledSummary ==
    LET table == rename_status_and_unit_columns(TableNO2O3, DefaultStatusStr, DefaultUnitStr,
                     DefaultStatusOffset, DefaultUnitOffset).df
    IN  fill_status_summary_row(FrameMarkedSummary, FrameYears[2], 1, table,
            split_column_types(table.cols, DefaultStatusStr, DefaultUnitStr).status_cols,
            year_col_title, FALSE)

FrameInputs == {FrameEmptySummary, FrameMarkedSummary, FrameFilledSummary}

\* output_summary = input_summary.copy() without the copy: the writes land
\* in the table the caller passed.
InputSharedWithOutput(input_summary, output_summary) == output_summary

\* output_summary = input_summary.copy(): the function writes to the copy,
\* so after the call the table the caller passed holds what it held before.
InputAfterCall(input_summary, output_summary) == input_summary

FrInit ==
    \E input \in FrameInputs, table \in FrameTables,
       r \in 0..(Len(FrameYears) - 1), c \in BOOLEAN :
        fl = [op |-> "args", fn |-> "none", input_summary |-> input,
              single_year_data |-> table, row_idx |-> r, count_only |-> c,
              cols |-> <<>>, input_after |-> input, output |-> NoSummary]

FrameMarkInvalidYear ==
    /\ fl.op = "args"
    /\ LET out == mark_invalid_year(fl.input_summary, FrameYears[fl.row_idx + 1], fl.row_idx,
                                    year_col_title, fl.count_only)
       IN  fl' = [fl EXCEPT !.op = "called", !.fn = "mark_invalid_year", !.output = out,
                            !.input_after = InputAfterCall(fl.input_summary, out)]
    /\ UNCHANGED <<cl, gy, pv, runVars>>

FrameFillMeasurementSummaryRow ==
    /\ fl.op = "args"
    /\ LET measurement_cols == split_column_types(fl.single_year_data.cols, DefaultStatusStr,
                                                  DefaultUnitStr).measurement_cols
           out == fill_measurement_summary_row(fl.input_summary, FrameYears[fl.row_idx + 1],
                      fl.row_idx, measurement_cols, year_col_title)
       IN  fl' = [fl EXCEPT !.op = "called", !.fn = "fill_measurement_summary_row",
                            !.cols = measurement_cols, !.output = out,
                            !.input_after = InputAfterCall(fl.input_summary, out)]
    /\ UNCHANGED <<cl, gy, pv, runVars>>

FrameFillStatusSummaryRow ==
    /\ fl.op = "args"
    /\ LET status_cols == split_column_types(fl.single_year_data.cols, DefaultStatusStr,
                                             DefaultUnitStr).status_cols
           out == fill_status_summary_row(fl.input_summary, FrameYears[fl.row_idx + 1],
                      fl.row_idx, fl.single_year_data, status_cols, year_col_title,
                      fl.count_only)
       IN  fl' = [fl EXCEPT !.op = "called", !.fn = "fill_status_summary_row",
                            !.cols = status_cols, !.output = out,
                            !.input_after = InputAfterCall(fl.input_summary, out)]
    /\ UNCHANGED <<cl, gy, pv, runVars>>

FrameFillUnitSummaryRow ==
    /\ fl.op = "args"
    /\ LET unit_cols == split_column_types(fl.single_year_data.cols, DefaultStatusStr,
                                           DefaultUnitStr).unit_cols
           out == fill_unit_summary_row(fl.input_summary, FrameYears[fl.row_idx + 1],
                      fl.row_idx, fl.single_year_data, unit_cols, year_col_title,
                      fl.count_only)
       IN  fl' = [fl EXCEPT !.op = "called", !.fn = "fill_unit_summary_row",
                            !.cols = unit_cols, !.output = out,
                            !.input_after = InputAfterCall(fl.input_summary, out)]
    /\ UNCHANGED <<cl, gy, pv, runVars>>

-----------------------------------------------------------------------------
(* Specifications *)

\* A run of monitoring_site_summary with the default fetch configuration.
\* The configuration only decides the URLs that are read, not what a read
\* yields, so the runs of a caller with another configuration are explored
\* apart, over one file layout (SpecConfigured).
Init == cl = ClIdle /\ gy = GyIdle /\ fl = FlIdle /\ pv = PvIdle /\ RunInitWith({DefaultConfig}, RemoteTables)

Next ==
    \/ CallGetReferenceColumns
    \/ ResolverIteration
    \/ ResolverExhausted
    \/ CreateSummaries
    \/ LoopIteration
    \/ FinishSummary

Spec == Init /\ [][Next]_vars

InitConfigured ==
    cl = ClIdle /\ gy = GyIdle /\ fl = FlIdle /\ pv = PvIdle /\ RunInitWith(RunConfigs, {TableNO2})

SpecConfigured == InitConfigured /\ [][Next]_vars

\* The position of the run in the program text.
position == <<pc, ref_idx, idx>>

\* A step of a run that has neither returned nor raised: the interpreter
\* goes on to the next statement, so the position changes.
Advance ==
    /\ pc \notin {"done", "raised"}
    /\ pc' \in {"resolve", "resolved", "loop", "done", "raised"}
    /\ ref_idx' \in 0..MaxYears
    /\ idx' \in 0..MaxYears

\* The run as a sequential program: while it has not ended it keeps
\* stepping.
SpecFair == Init /\ [][Next]_vars /\ WF_position(Advance)

\* Single calls of the column classifier.
InitClassifier == ClInit /\ gy = GyIdle /\ fl = FlIdle /\ pv = PvIdle /\ RunIdle

NextClassifier == CallSplitColumnTypes \/ CallRenameStatusAndUnitColumns

SpecClassifier == InitClassifier /\ [][NextClassifier]_vars

\* Single calls of the fetcher.
InitFetcher == cl = ClIdle /\ GyInit /\ fl = FlIdle /\ pv = PvIdle /\ RunIdle

NextFetcher == CallGetSingleYear

SpecFetcher == InitFetcher /\ [][NextFetcher]_vars

\* Single calls of the two metadata fill functions.
InitFill == cl = ClIdle /\ gy = GyIdle /\ FlInit /\ pv = PvIdle /\ RunIdle

NextFill == CallFillStatusSummaryRow \/ CallFillUnitSummaryRow

SpecFill == InitFill /\ [][NextFill]_vars

\* A run of preview_data.
InitPreview == cl = ClIdle /\ gy = GyIdle /\ fl = FlIdle /\ PvInit /\ RunIdle

NextPreview == CallPreviewData \/ PreviewIteration \/ PreviewReturn

SpecPreview == InitPreview /\ [][NextPreview]_vars

\* Single calls of the four functions that write a summary row.
InitFrame == cl = ClIdle /\ gy = GyIdle /\ FrInit /\ pv = PvIdle /\ RunIdle

NextFrame ==
    \/ FrameMarkInvalidYear
    \/ FrameFillMeasurementSummaryRow
    \/ FrameFillStatusSummaryRow
    \/ FrameFillUnitSummaryRow

SpecFrame == InitFrame /\ [][NextFrame]_vars

-----------------------------------------------------------------------------
(* Properties of the column classifier (SpecClassifier) *)

NonOverlapping(a, b) == ~StrContains(a, b) /\ ~StrContains(b, a)

TitlesOf(lst) == {lst[k] : k \in 1..Len(lst)}

ListsHolding(t, split) ==
    {n \in {"measurement_cols", "status_cols", "unit_cols"} : InList(t, split[n])}

\* C1: for markers neither of which contains the other, split_column_types
\* puts every input title in exactly one of its three lists, the lists hold
\* nothing but input titles, and a title containing both markers is in the
\* status list only.
C1_SplitIsPartition ==
    (cl.op = "split" /\ NonOverlapping(cl.status_str, cl.unit_str)) =>
        /\ \A t \in TitlesOf(cl.cols) :
            /\ Cardinality(ListsHolding(t, cl.split)) = 1
            /\ (StrContains(cl.status_str, t) /\ StrContains(cl.unit_str, t))
                   => ListsHolding(t, cl.split) = {"status_cols"}
        /\ TitlesOf(cl.split.measurement_cols) \cup TitlesOf(cl.split.status_cols)
               \cup TitlesOf(cl.split.unit_cols) = TitlesOf(cl.cols)

\* Index (1-based) of the column a metadata column at position k points to.
TargetInRange(k, offset) == k + offset \in 1..Len(cl.cols)

\* C2: when rename_status_and_unit_columns returns, a column whose original
\* title contains the status marker, and whose target i+status_offset is a
\* column index, is titled <original title of the target> + " " + status
\* marker; a column containing the unit marker and not the status marker
\* likewise with unit_offset and the unit marker.
C2_RenamedFromOriginalTitles ==
    (cl.op = "rename" /\ cl.renamed.err = "none") =>
        \A k \in 1..Len(cl.cols) :
            /\ (StrContains(cl.status_str, cl.cols[k]) /\ TargetInRange(k, cl.status_offset))
                   => cl.renamed.df.cols[k] =
                          cl.cols[k + cl.status_offset] \o " " \o cl.status_str
            /\ (/\ ~StrContains(cl.status_str, cl.cols[k])
                /\ StrContains(cl.unit_str, cl.cols[k])
                /\ TargetInRange(k, cl.unit_offset))
                   => cl.renamed.df.cols[k] =
                          cl.cols[k + cl.unit_offset] \o " " \o cl.unit_str

\* A call that renamed a status and a unit column through in-range targets,
\* one of the targets being itself a column the call renamed.
C2_Witness ==
    /\ cl.op = "rename" /\ cl.renamed.err = "none"
    /\ cl.status_offset # cl.unit_offset
    /\ \E k \in 1..Len(cl.cols) :
        /\ StrContains(cl.status_str, cl.cols[k])
        /\ TargetInRange(k, cl.status_offset)
    /\ \E k \in 1..Len(cl.cols) :
        /\ ~StrContains(cl.status_str, cl.cols[k])
        /\ StrContains(cl.unit_str, cl.cols[k])
        /\ TargetInRange(k, cl.unit_offset)
        /\ cl.renamed.df.cols[k + cl.unit_offset] # cl.cols[k + cl.unit_offset]

IsMetadataTitle(t) == StrContains(cl.status_str, t) \/ StrContains(cl.unit_str, t)

\* C3: when rename_status_and_unit_columns returns, the table has the same
\* number of columns, the columns' contents are in the same order, and every
\* column whose title contains neither marker keeps its title.
C3_NonMetadataUnchanged ==
    (cl.op = "rename" /\ cl.renamed.err = "none") =>
        /\ Len(cl.renamed.df.cols) = Len(cl.cols)
        /\ cl.renamed.df.data = HarnessTable(cl.cols).data
        /\ \A k \in 1..Len(cl.cols) :
               ~IsMetadataTitle(cl.cols[k]) => cl.renamed.df.cols[k] = cl.cols[k]

\* A call that returned a table in which a non-metadata column stands next to
\* a metadata column whose title changed.
C3_Witness ==
    /\ cl.op = "rename" /\ cl.renamed.err = "none"
    /\ \E k \in 1..Len(cl.cols) : ~IsMetadataTitle(cl.cols[k])
    /\ \E k \in 1..Len(cl.cols) :
           IsMetadataTitle(cl.cols[k]) /\ cl.renamed.df.cols[k] # cl.cols[k]

\* C4: a metadata column whose target i+offset is no column index (below 0
\* or past the last column) makes rename_status_and_unit_columns fail with
\* an IndexError.
C4_OutOfRangeRaises ==
    (/\ cl.op = "rename"
     /\ \E k \in 1..Len(cl.cols) :
         \/ StrContains(cl.status_str, cl.cols[k]) /\ ~TargetInRange(k, cl.status_offset)
         \/ /\ ~StrContains(cl.status_str, cl.cols[k])
            /\ StrContains(cl.unit_str, cl.cols[k])
            /\ ~TargetInRange(k, cl.unit_offset))
        => cl.renamed.err = "IndexError"

-----------------------------------------------------------------------------
(* Properties of the fetcher (SpecFetcher) *)

\* C5: get_single_year never raises; a read that succeeds gives the parsed
\* table, every other outcome gives None and prints a line holding the URL
\* fixed_url + site_id + sep + year + "." + file_format.
C5_FetcherNeverRaises ==
    gy.op = "called" =>
        /\ gy.result.raised = "none"
        /\ gy.outcome = "ok" =>
               /\ ~gy.result.is_none
               /\ gy.result.single_year.cols = gy.table.cols
               /\ gy.result.printed = <<>>
        /\ gy.outcome # "ok" =>
               /\ gy.result.is_none
               /\ \E n \in 1..Len(gy.result.printed) :
                      StrContains(gy.fixed_url \o gy.site_id \o gy.sep \o ToString(gy.year)
                                      \o "." \o gy.file_format,
                                  gy.result.printed[n])

\* A call whose read failed while parsing.
C5_Witness == gy.op = "called" /\ gy.outcome = "parse" /\ gy.result.is_none

-----------------------------------------------------------------------------
(* Properties of the reference resolver (Spec) *)

ResolverFetches ==
    {n \in 1..Len(io_log) : io_log[n].ev = "fetch" /\ io_log[n].by = "resolver"}

\* Years the resolver fetched and got a table for / got None for.
ResolverGot == {io_log[n].year : n \in {m \in ResolverFetches : io_log[m].got}}
ResolverMissed == {io_log[n].year : n \in {m \in ResolverFetches : ~io_log[m].got}}

\* The header row of a year's file with its metadata columns renamed.
RenamedTitles(year) ==
    rename_status_and_unit_columns(ReadCsv(remote[year], ReferenceNRows), DefaultStatusStr,
        DefaultUnitStr, DefaultStatusOffset, DefaultUnitOffset)

\* C6: whatever the order of the caller's list, get_reference_columns returns
\* the renamed titles of the largest year of the list that is retrievable:
\* the year it took the titles from is in the list, every larger year of the
\* list was fetched and was absent, and a year found retrievable ends the
\* search (with the titles, or with the IndexError of the renaming).
C6_ReferenceIsMostRecentRetrievable ==
    /\ ResolverGot # {} =>
           \/ pc # "resolve" /\ raised = "none"
           \/ pc = "raised" /\ raised = "IndexError"
    /\ (ResolverGot # {} /\ raised = "none") =>
           \E y \in TitlesOf(caller_years) :
               /\ ResolverGot = {y}
               /\ reference_cols = RenamedTitles(y).df.cols
               /\ \A y2 \in TitlesOf(caller_years) :
                      y2 > y => y2 \in ResolverMissed /\ y2 \notin ResolverGot

\* The resolver returned titles for a caller who listed an absent later year
\* after the year the titles come from.
C6_Witness ==
    /\ pc = "resolved"
    /\ \E i, j \in 1..Len(caller_years) :
           /\ i < j
           /\ caller_years[i] < caller_years[j]
           /\ ResolverGot = {caller_years[i]}
           /\ caller_years[j] \in ResolverMissed

\* C7: when every listed year was absent (also when no year was listed),
\* get_reference_columns raises ValueError.
C7_NoDataRaisesValueError ==
    (pc = "raised" /\ ResolverGot = {} /\ idx = 0 /\ ref_idx = Len(years_of_interest))
        => raised = "ValueError"

-----------------------------------------------------------------------------
(* Properties of the summary tables (Spec) *)

YearColumn(summary) == CHOOSE k \in 1..Len(summary.cols) : summary.cols[k] = year_col_title

OtherColumns(summary) == {k \in 1..Len(summary.cols) : summary.cols[k] # year_col_title}

AbsentRows == {i \in 1..Len(year_state) : year_state[i] = "absent-marked"}
RecordedRows == {i \in 1..Len(year_state) : year_state[i] = "classified-and-recorded"}

RowIsSentinel(summary, i, sentinel) ==
    /\ summary.rows[i][YearColumn(summary)] = CInt(years_of_interest[i])
    /\ \A k \in OtherColumns(summary) : summary.rows[i][k] = sentinel

\* C8: in the tables of a finished run, the row of a year whose fetch was
\* absent holds "no data" in every non-year column of the measurement,
\* status and unit summaries, 0.0 in every non-year column of the two count
\* tables, and the year in the year column.
C8_AbsentYearRowIsSentinel ==
    pc = "done" =>
        \A i \in AbsentRows :
            /\ RowIsSentinel(measurement_summary, i, CStr("no data"))
            /\ RowIsSentinel(status_summary, i, CStr("no data"))
            /\ RowIsSentinel(unit_summary, i, CStr("no data"))
            /\ RowIsSentinel(unique_status_counts, i, CFloat(0))
            /\ RowIsSentinel(unique_unit_counts, i, CFloat(0))

\* The columns of a year's own table after renaming, classified.
OwnColumns(year) ==
    split_column_types(
        rename_status_and_unit_columns(remote[year], DefaultStatusStr, DefaultUnitStr,
                                       DefaultStatusOffset, DefaultUnitOffset).df.cols,
        DefaultStatusStr, DefaultUnitStr)

\* C9: in the measurement summary of a finished run, the row of a fetched
\* year holds true in exactly the columns that are measurement columns of
\* that year's table, and false in every other non-year column.
C9_MeasurementRowMarksOwnColumns ==
    pc = "done" =>
        \A i \in RecordedRows :
            LET own == OwnColumns(years_of_interest[i]).measurement_cols
            IN  \A k \in OtherColumns(measurement_summary) :
                    measurement_summary.rows[i][k] =
                        CBool(InList(measurement_summary.cols[k], own))

\* A finished run whose measurement summary has a fetched year's row with a
\* true cell, a false cell under a reference column and a false cell under a
\* column that another year added.
C9_Witness ==
    /\ pc = "done"
    /\ \E i \in RecordedRows :
        LET own == OwnColumns(years_of_interest[i]).measurement_cols
        IN  /\ \E k \in OtherColumns(measurement_summary) :
                   InList(measurement_summary.cols[k], own)
            /\ \E k \in OtherColumns(measurement_summary) :
                   /\ ~InList(measurement_summary.cols[k], own)
                   /\ ~InList(measurement_summary.cols[k], reference_cols)

CellsOf(summary) ==
    {summary.rows[i][k] : i \in 1..Len(summary.rows), k \in 1..Len(summary.cols)}

\* C10: after the fill step no cell of the measurement summary or of the two
\* count tables is NaN; in a fetched year's row a column that is not one of
\* that year's own columns holds false (measurement) or 0.0 (counts), and no
\* count cell is left holding the false placeholder.
C10_NoUnsetCellAfterFill ==
    pc = "done" =>
        /\ CNaN \notin CellsOf(measurement_summary)
        /\ CNaN \notin CellsOf(unique_status_counts)
        /\ CNaN \notin CellsOf(unique_unit_counts)
        /\ CBool(FALSE) \notin CellsOf(unique_status_counts)
        /\ CBool(FALSE) \notin CellsOf(unique_unit_counts)
        /\ \A i \in RecordedRows :
            LET own == OwnColumns(years_of_interest[i])
            IN  /\ \A k \in OtherColumns(measurement_summary) :
                       ~InList(measurement_summary.cols[k], own.measurement_cols)
                           => measurement_summary.rows[i][k] = CBool(FALSE)
                /\ \A k \in OtherColumns(unique_status_counts) :
                       ~InList(unique_status_counts.cols[k], own.status_cols)
                           => unique_status_counts.rows[i][k] = CFloat(0)
                /\ \A k \in OtherColumns(unique_unit_counts) :
                       ~InList(unique_unit_counts.cols[k], own.unit_cols)
                           => unique_unit_counts.rows[i][k] = CFloat(0)

\* A finished run in which a year added a measurement column and a status
\* column that the reference columns lack, and another fetched year has
\* neither.
C10_Witness ==
    /\ pc = "done"
    /\ \E k \in OtherColumns(measurement_summary), q \in OtherColumns(unique_status_counts) :
        /\ ~InList(measurement_summary.cols[k], reference_cols)
        /\ ~InList(unique_status_counts.cols[q], reference_cols)
        /\ \E i \in RecordedRows :
            /\ ~InList(measurement_summary.cols[k],
                       OwnColumns(years_of_interest[i]).measurement_cols)
            /\ ~InList(unique_status_counts.cols[q],
                       OwnColumns(years_of_interest[i]).status_cols)

-----------------------------------------------------------------------------
(* Properties of the metadata fill functions (SpecFill) *)

\* The cell of a summary under the column titled col, in pandas row row_idx.
CellAt(summary, row_idx, col) ==
    summary.rows[row_idx + 1][CHOOSE k \in 1..Len(summary.cols) : summary.cols[k] = col]

\* The distinct non-missing values of a column, and whether a value is missing.
DistinctNonMissing(column) == {column[r] : r \in 1..Len(column)} \ {CNaN}
HasMissing(column) == \E r \in 1..Len(column) : column[r] = CNaN

\* What the descriptive mode is to write for a column.
DescriptiveCell(column) ==
    LET values == DistinctNonMissing(column)
        n == Cardinality(values)
    IN  IF n = 1 /\ HasMissing(column)
        THEN CStr((CHOOSE v \in values : TRUE).v \o "  (+ NaNs)")
        ELSE IF n = 1
             THEN CHOOSE v \in values : TRUE
             ELSE CStr(ToString(n) \o " different values")

\* The summaries the calls made so far returned.
FillOutputs ==
    (IF fl.status_called THEN {fl.by_status} ELSE {})
        \cup (IF fl.unit_called THEN {fl.by_unit} ELSE {})

\* C11: in descriptive mode each of the two fill functions writes, under
\* every column passed for the year, "<v>  (+ NaNs)" for a column with one
\* distinct value v and a missing value, v itself for a column with one
\* distinct value and nothing missing, and "<n> different values" otherwise
\* (n = 0 for an empty or all-missing column).
C11_DescriptiveCells ==
    ~fl.count_only =>
        \A out \in FillOutputs : \A k \in 1..Len(FillMetaCols) :
            CellAt(out, fl.row_idx, FillMetaCols[k])
                = DescriptiveCell(fl.single_year_data.data[k])

\* Both functions were called in descriptive mode on a table with a column
\* that holds one value after a missing first row and a column that holds
\* nothing but missing values.
C11_Witness ==
    /\ ~fl.count_only /\ fl.status_called /\ fl.unit_called
    /\ CellAt(fl.by_status, fl.row_idx, "NO2 status") = CStr("V  (+ NaNs)")
    /\ fl.single_year_data.data[1][1] = CNaN
    /\ CellAt(fl.by_unit, fl.row_idx, "NO2 unit") = CStr("0 different values")
    /\ Len(fl.single_year_data.data[2]) > 0

\* C12: in count mode each of the two fill functions writes, under every
\* column passed for the year, the number of distinct non-missing values of
\* the column as a float, and once both were called with the same arguments
\* they returned the same table.
C12_CountCells ==
    fl.count_only =>
        /\ \A out \in FillOutputs : \A k \in 1..Len(FillMetaCols) :
               CellAt(out, fl.row_idx, FillMetaCols[k])
                   = CFloat(Cardinality(DistinctNonMissing(fl.single_year_data.data[k])))
        /\ (fl.status_called /\ fl.unit_called) => fl.by_status = fl.by_unit

\* Both functions were called in count mode on a table with a column holding
\* two values and a missing one.
C12_Witness ==
    /\ fl.count_only /\ fl.status_called /\ fl.unit_called
    /\ HasMissing(fl.single_year_data.data[1])
    /\ CellAt(fl.by_unit, fl.row_idx, "NO2 status") = CFloat(2)

-----------------------------------------------------------------------------
(* Properties of a whole run of monitoring_site_summary (Spec) *)

Occurrences(lst, x) == Cardinality({k \in 1..Len(lst) : lst[k] = x})

\* The year column of a summary, top to bottom.
YearCells(summary) ==
    [i \in 1..Len(summary.rows) |-> summary.rows[i][YearColumn(summary)]]

\* One row per requested year, each holding its year.
RowPerRequestedYear(summary) ==
    /\ Len(summary.rows) = Len(caller_years)
    /\ \A y \in Years :
           Occurrences(YearCells(summary), CInt(y)) = Occurrences(caller_years, y)
    /\ \A i \in 1..Len(summary.rows) : YearCells(summary)[i] # CStr("blank")

\* A year's own table with its metadata columns renamed.
OwnTable(year) ==
    rename_status_and_unit_columns(remote[year], DefaultStatusStr, DefaultUnitStr,
                                   DefaultStatusOffset, DefaultUnitOffset).df

\* Row i of the three returned summaries is filled from the columns of the
\* year's own table.
RowPopulatedFromOwnColumns(i) ==
    LET year == years_of_interest[i]
        own == OwnColumns(year)
        table == OwnTable(year)
    IN  /\ \A k \in 1..Len(own.measurement_cols) :
               CellAt(measurement_summary, i - 1, own.measurement_cols[k]) = CBool(TRUE)
        /\ \A k \in 1..Len(own.status_cols) :
               CellAt(status_summary, i - 1, own.status_cols[k])
                   = DescriptiveCell(ColumnOf(table, own.status_cols[k]))
        /\ \A k \in 1..Len(own.unit_cols) :
               CellAt(unit_summary, i - 1, own.unit_cols[k])
                   = DescriptiveCell(ColumnOf(table, own.unit_cols[k]))

\* The parts of C13 other than the sentinel rows.
RowsYearsAndPopulatedRows ==
    /\ RowPerRequestedYear(measurement_summary)
    /\ RowPerRequestedYear(status_summary)
    /\ RowPerRequestedYear(unit_summary)
    /\ \A i \in RecordedRows : RowPopulatedFromOwnColumns(i)

\* C13: each summary table a run returns has one row per requested year,
\* the year column holds exactly the requested years and no "blank", the row
\* of every year whose fetch was absent is sentinel-marked ("no data" in
\* every other column) and the row of every fetched year is filled from
\* that year's own columns.
C13_EndToEndRows ==
    pc = "done" =>
        /\ RowsYearsAndPopulatedRows
        /\ \A i \in AbsentRows :
            /\ RowIsSentinel(measurement_summary, i, CStr(invalid_year_str))
            /\ RowIsSentinel(status_summary, i, CStr(invalid_year_str))
            /\ RowIsSentinel(unit_summary, i, CStr(invalid_year_str))

\* The fetches of the run so far, in order: all of them, the resolver's and
\* the summary loop's.
AllFetches == SelectSeq(io_log, LAMBDA e : e.ev = "fetch")
ResolverFetchSeq == SelectSeq(io_log, LAMBDA e : e.ev = "fetch" /\ e.by = "resolver")
LoopFetchSeq == SelectSeq(io_log, LAMBDA e : e.ev = "fetch" /\ e.by = "loop")

\* C14: the i-th full-data fetch of the summary loop is for the i-th year of
\* the list as the caller wrote it, and in the returned tables row i holds
\* that year.
C14_CallerOrderKept ==
    /\ \A n \in 1..Len(LoopFetchSeq) : LoopFetchSeq[n].year = caller_years[n]
    /\ pc = "done" =>
           \A i \in 1..Len(caller_years) :
               /\ YearCells(measurement_summary)[i] = CInt(caller_years[i])
               /\ YearCells(status_summary)[i] = CInt(caller_years[i])
               /\ YearCells(unit_summary)[i] = CInt(caller_years[i])

FetchCount(fetches, y) == Cardinality({n \in 1..Len(fetches) : fetches[n].year = y})

\* C15: counting the resolver's calls and the summary loop's calls together,
\* get_single_year is called at most once for each listed year (a year the
\* caller listed k times: at most k times).
C15_OneFetchPerYearInAll ==
    \A y \in Years : FetchCount(AllFetches, y) <= Occurrences(caller_years, y)

\* C15 as amended: the resolver calls get_single_year at most once for each
\* listed year and the summary loop calls it at most once for each listed
\* year, exactly once in a finished run; a year can be fetched twice in a
\* run, once by each.
C15_OneFetchPerYearPerPhase ==
    \A y \in Years :
        /\ FetchCount(ResolverFetchSeq, y) <= Occurrences(caller_years, y)
        /\ FetchCount(LoopFetchSeq, y) <= Occurrences(caller_years, y)
        /\ pc = "done" => FetchCount(LoopFetchSeq, y) = Occurrences(caller_years, y)

\* A finished run in which a year listed once was absent for the resolver
\* and absent again for the summary loop.
C15_Witness ==
    /\ pc = "done"
    /\ \E i \in AbsentRows :
        /\ Occurrences(caller_years, years_of_interest[i]) = 1
        /\ years_of_interest[i] \in ResolverMissed

FinalYearStates == {"absent-marked", "classified-and-recorded"}

\* C16: once the reference columns are there and the summary loop runs, the
\* run comes to its return with every listed year in one of the final states
\* absent-marked and classified-and-recorded, or ends with the IndexError of
\* an out-of-range offset: an absent year does not keep the years after it
\* from being processed.
C16_EveryYearReachesFinalState ==
    (pc = "loop") ~>
        \/ pc = "raised" /\ raised = "IndexError"
        \/ /\ pc = "done"
           /\ Len(year_state) = Len(caller_years)
           /\ \A i \in 1..Len(year_state) : year_state[i] \in FinalYearStates

\* A finished run in which a fetched year comes after an absent one.
C16_Witness ==
    /\ pc = "done"
    /\ \E i \in AbsentRows, j \in RecordedRows : i < j

\* C17: between two successive calls of get_single_year in a run, the
\* resolver's last and the loop's first among them, a sleep is executed: no
\* fetch follows a fetch directly.
C17_SleepBetweenFetches ==
    \A n \in 1..(Len(io_log) - 1) :
        io_log[n].ev = "fetch" => io_log[n + 1].ev = "sleep"

-----------------------------------------------------------------------------
(* Properties of preview_data (SpecPreview) *)

PreviewFetches == SelectSeq(pv.log, LAMBDA e : e.ev = "fetch")
PreviewFetchedYears == [n \in 1..Len(PreviewFetches) |-> PreviewFetches[n].year]

\* The years a fetch of the preview returned a table for.
PreviewGot == {PreviewFetches[n].year : n \in {m \in 1..Len(PreviewFetches) : PreviewFetches[m].got}}

\* The years from end_year down to start_year that are in `keep`.
DescendingWithin(start_year, end_year, keep) ==
    SelectSeq(ReversedRange(start_year, end_year), LAMBDA y : y \in keep)

-----------------------------------------------------------------------------
(* Properties of the returned dictionary and of the resolver's fetches (Spec) *)

\* The years a full-data fetch of the summary loop returned a table for.
LoopGot == {LoopFetchSeq[n].year : n \in {m \in 1..Len(LoopFetchSeq) : LoopFetchSeq[m].got}}

\* C19: the keys of the returned data_dict are exactly the listed years for
\* which a full-data fetch of the summary loop returned a table, each key maps
\* to that year's full table with its metadata columns renamed, and a listed
\* year whose fetch was absent is not a key.
C19_DataDictKeys ==
    pc = "done" =>
        /\ DOMAIN data_dict = LoopGot
        /\ \A y \in DOMAIN data_dict :
               /\ InList(y, caller_years)
               /\ data_dict[y] = OwnTable(y)
               /\ data_dict[y].data = remote[y].data
        /\ \A i \in AbsentRows :
               years_of_interest[i] \notin LoopGot => years_of_interest[i] \notin DOMAIN data_dict

\* A finished run in which one listed year is a key, with a column the
\* renaming retitled, and another listed year was absent.
C19_Witness ==
    /\ pc = "done"
    /\ \E y \in DOMAIN data_dict : data_dict[y].cols # remote[y].cols
    /\ \E i \in AbsentRows : years_of_interest[i] \notin DOMAIN data_dict

\* What C20 says of the resolver's fetches apart from their order: each reads
\* one row, only the last of them can have returned a table, and a sleep
\* follows each absent result.
ResolverStopsAtFirstTable ==
    /\ \A n \in 1..Len(ResolverFetchSeq) : ResolverFetchSeq[n].nrows = ReferenceNRows
    /\ \A n \in 1..(Len(ResolverFetchSeq) - 1) : ~ResolverFetchSeq[n].got
    /\ \A n \in 1..Len(io_log) :
           (io_log[n].ev = "fetch" /\ io_log[n].by = "resolver" /\ ~io_log[n].got)
               => (n < Len(io_log) /\ io_log[n + 1].ev = "sleep")

\* C20: get_reference_columns fetches in strictly descending year order,
\* one row each, stops at the first year that returns a table and sleeps
\* after each absent result.
C20_ResolverStrictlyDescending ==
    /\ ResolverStopsAtFirstTable
    /\ \A n \in 1..(Len(ResolverFetchSeq) - 1) :
           ResolverFetchSeq[n].year > ResolverFetchSeq[n + 1].year

\* C20 as amended: the resolver's fetches are in descending year order, a
\* year listed more than once being fetched again as long as it is absent
\* (strictly descending when no year is listed twice); one row each, stop at
\* the first table, no fetch of a year older than the reference year, a
\* sleep after each absent result.
C20_ResolverDescending ==
    /\ ResolverStopsAtFirstTable
    /\ \A n \in 1..(Len(ResolverFetchSeq) - 1) :
           /\ ResolverFetchSeq[n].year >= ResolverFetchSeq[n + 1].year
           /\ Occurrences(caller_years, ResolverFetchSeq[n].year) = 1
                  => ResolverFetchSeq[n].year > ResolverFetchSeq[n + 1].year
    /\ \A y \in ResolverGot, n \in 1..Len(ResolverFetchSeq) : ResolverFetchSeq[n].year >= y

\* The resolver returned after an absent year and a retrievable one, the
\* caller having listed an older year that the resolver did not fetch.
C20_Witness ==
    /\ pc = "resolved"
    /\ Len(ResolverFetchSeq) >= 2
    /\ \E k \in 1..Len(caller_years) :
           /\ FetchCount(ResolverFetchSeq, caller_years[k]) = 0
           /\ \A y \in ResolverGot : caller_years[k] < y

-----------------------------------------------------------------------------
(* Properties of the fetch configuration (SpecConfigured) *)

\* The URL a fetch of `year` reads under the caller's configuration.
CallerUrl(year) == DataUrl(RunSiteId, year, config.fixed_url, config.sep, config.file_format)

\* C21: every fetch of a run, the resolver's as well as the summary loop's,
\* reads the URL built from the fixed_url, sep and file_format the caller
\* passed to monitoring_site_summary, so the reference columns come from the
\* data source the summary rows are built from.
C21_ResolverUsesCallerConfig ==
    \A n \in 1..Len(io_log) :
        io_log[n].ev = "fetch" => io_log[n].url = CallerUrl(io_log[n].year)

-----------------------------------------------------------------------------
(* Frame properties (Spec, SpecFrame) *)

\* C22: once get_reference_columns has returned or raised, the list the
\* caller passed holds the same years in the same order as before the call.
C22_CallerListUnchanged ==
    pc \in {"resolved", "loop", "done", "raised"} => years_of_interest = caller_years

\* C23: in the status summary and the unit summary a run returns no cell is
\* NaN: every cell under a status or unit column is the false placeholder,
\* a descriptive string or value written for a fetched year, or "no data".
C23_NoNaNInDescriptiveSummaries ==
    pc = "done" =>
        /\ CNaN \notin CellsOf(status_summary)
        /\ CNaN \notin CellsOf(unit_summary)

\* C24: a call of mark_invalid_year or of a fill function leaves the table
\* it was handed as it was; the table it returns keeps the rows and the
\* existing columns, every cell of a row other than row_idx under an
\* existing column has its previous value, and in row row_idx a fill
\* function changes no existing cell other than the year and the cells of
\* the columns passed for the year.
C24_OnlyOwnRowWritten ==
    fl.op = "called" =>
        LET input == fl.input_summary
            output == fl.output
        IN  /\ fl.input_after = input
            /\ Len(output.rows) = Len(input.rows)
            /\ SubSeq(output.cols, 1, Len(input.cols)) = input.cols
            /\ \A i \in 1..Len(input.rows), k \in 1..Len(input.cols) :
                   i # fl.row_idx + 1 => output.rows[i][k] = input.rows[i][k]
            /\ fl.fn # "mark_invalid_year" =>
                   \A k \in 1..Len(input.cols) :
                       (input.cols[k] # year_col_title /\ ~InList(input.cols[k], fl.cols))
                           => output.rows[fl.row_idx + 1][k] = input.rows[fl.row_idx + 1][k]

\* A fill function was called on a summary with a marked row and a filled
\* row, wrote a row that held "no data", and added a column.
C24_Witness ==
    /\ fl.op = "called"
    /\ fl.fn = "fill_unit_summary_row"
    /\ fl.input_summary = FrameFilledSummary
    /\ fl.row_idx = 0
    /\ Len(fl.output.cols) > Len(fl.input_summary.cols)
    /\ CellAt(fl.output, 0, "NO2 status") = CStr(invalid_year_str)
    /\ fl.output.rows[1] # fl.input_summary.rows[1]

====
